---- MODULE Spec2Model ----
(***************************************************************************)
(* State-machine model of the nail_service application: the relational    *)
(* tables (User/Master/Customer, Services, PriceList, Events), the model   *)
(* methods that write them and the views of views.py that read and change  *)
(* them.  Every view is one action: it takes the requesting user, the      *)
(* target pk and the submitted data, runs the access checks in the order   *)
(* the view's mixins and decorators run them, changes the tables and       *)
(* records the request and the response.                                   *)
(***************************************************************************)
EXTENDS Integers, Sequences, FiniteSets, TLC

(***************************************************************************)
(* Bounds of the model.                                                    *)
(***************************************************************************)
MaxUsers == 2
MaxQueryLen == 2
MaxServices == 2
MaxPriceRows == 2
MaxEvents == 2

VARIABLES users, services, pricelist, events, master_customers, seq, req, resp

vars == <<users, services, pricelist, events, master_customers, seq, req, resp>>

(***************************************************************************)
(* Generic helpers on tables (functions from primary key to row).          *)
(***************************************************************************)
Put(tbl, k, row) == [x \in (DOMAIN tbl) \cup {k} |-> IF x = k THEN row ELSE tbl[x]]

Drop(tbl, ks) == [x \in (DOMAIN tbl) \ ks |-> tbl[x]]

Restrict(f, keys) == [x \in (DOMAIN f) \cap keys |-> f[x]]

(***************************************************************************)
(* Identity: request.user is AnonymousUser (no pk) or a stored User row.   *)
(***************************************************************************)
Anonymous == 0

NoPk == 0

Roles == {"ADMIN", "CUSTOMER", "MASTER"}

Kinds == {"User", "Customer", "Master"}

base_role(kind) ==
    CASE kind = "Master" -> "MASTER"
      [] kind = "Customer" -> "CUSTOMER"
      [] OTHER -> "ADMIN"

Masters(tbl) == {u \in DOMAIN tbl : tbl[u].kind = "Master"}

Customers(tbl) == {u \in DOMAIN tbl : tbl[u].kind = "Customer"}

Principals == {Anonymous} \cup DOMAIN users

is_authenticated(u) == u # Anonymous

(* request.user.master: the reverse one-to-one accessor; it raises         *)
(* RelatedObjectDoesNotExist when the user has no Master row.              *)
has_master(u) == u \in Masters(users)

(***************************************************************************)
(* Text: a string is a sequence of one-character strings.                  *)
(***************************************************************************)
Alphabet == {"a", "B", " "}

Lower(c) == IF c = "B" THEN "b" ELSE c

LowerSeq(s) == [i \in 1..Len(s) |-> Lower(s[i])]

IsSpace(c) == c = " "

RECURSIVE LStrip(_)
LStrip(s) == IF s # <<>> /\ IsSpace(Head(s)) THEN LStrip(Tail(s)) ELSE s

RECURSIVE RStrip(_)
RStrip(s) ==
    IF s # <<>> /\ IsSpace(s[Len(s)]) THEN RStrip(SubSeq(s, 1, Len(s) - 1)) ELSE s

Strip(s) == RStrip(LStrip(s))

Contains(s, sub) ==
    \E i \in 0..(Len(s) - Len(sub)) : SubSeq(s, i + 1, i + Len(sub)) = sub

(* the __icontains lookup *)
IContains(s, sub) == Contains(LowerSeq(s), LowerSeq(sub))

RECURSIVE SeqsUpTo(_)
SeqsUpTo(n) ==
    IF n = 0 THEN {<<>>}
    ELSE LET shorter == SeqsUpTo(n - 1)
         IN  shorter \cup {Append(s, c) : s \in {t \in shorter : Len(t) = n - 1}, c \in Alphabet}

Queries == SeqsUpTo(MaxQueryLen)

(***************************************************************************)
(* Responses.                                                              *)
(***************************************************************************)
Response(status, location, body) == [status |-> status, location |-> location, body |-> body]

Ok(body) == Response("OK", "", body)

RedirectToLogin == Response("REDIRECT", "login", {})

RedirectTo(url) == Response("REDIRECT", url, {})

Forbidden == Response("FORBIDDEN", "", {})

NotFound == Response("NOT_FOUND", "", {})

ServerError == Response("SERVER_ERROR", "", {})

Request(view, u, pk, data) == [view |-> view, user |-> u, pk |-> pk, data |-> data]

NoData == [x \in {} |-> 0]

DbUnchanged == UNCHANGED <<users, services, pricelist, events, master_customers, seq>>

(* A request that reads only: the tables stay as they are. *)
Reply(view, u, pk, data, response) ==
    /\ req' = Request(view, u, pk, data)
    /\ resp' = response
    /\ DbUnchanged

(***************************************************************************)
(* User.save (models.py): the role is forced to the subtype's base_role    *)
(* when the instance has no pk; otherwise the instance's role is written.  *)
(***************************************************************************)
RoleOnSaveKeep(pk, kind, role) == role

RoleOnSave(pk, kind, role) == IF pk = NoPk THEN base_role(kind) ELSE role

(* save() of instance inst with primary key pk (NoPk: a new row, which     *)
(* gets the next id of the table's sequence).                              *)
User_save(tbl, pk, inst) ==
    LET id == IF pk = NoPk THEN seq.user + 1 ELSE pk
    IN  Put(tbl, id, [inst EXCEPT !.role = RoleOnSave(pk, inst.kind, inst.role)])

UsernameTaken(tbl, name, self) == \E u \in (DOMAIN tbl) \ {self} : tbl[u].username = name

NewUser(kind, username, role) == [kind |-> kind, role |-> role, username |-> username]

(* Master.objects.create(username=..., role=...) and the same for Customer *)
(* and User: a new instance, saved once.  A duplicate username violates    *)
(* the unique constraint and stores nothing.                               *)
ModelCreate(kind, username, role) ==
    /\ seq.user < MaxUsers
    /\ req' = Request("model.create", Anonymous, NoPk, NewUser(kind, username, role))
    /\ IF UsernameTaken(users, username, NoPk)
       THEN /\ resp' = Response("INTEGRITY_ERROR", "", {})
            /\ DbUnchanged
       ELSE /\ users' = User_save(users, NoPk, NewUser(kind, username, role))
            /\ seq' = [seq EXCEPT !.user = @ + 1]
            /\ resp' = Response("SAVED", "", {})
            /\ UNCHANGED <<services, pricelist, events, master_customers>>

(* A later save() of a stored instance whose role attribute holds `role`.  *)
ModelSave(pk, role) ==
    /\ pk \in DOMAIN users
    /\ req' = Request("model.save", Anonymous, pk, [role |-> role])
    /\ users' = User_save(users, pk, [users[pk] EXCEPT !.role = role])
    /\ resp' = Response("SAVED", "", {})
    /\ UNCHANGED <<services, pricelist, events, seq, master_customers>>

(***************************************************************************)
(* Forms (forms.py).  cleaned_data holds the form's own fields only.       *)
(***************************************************************************)
MasterCreationFormFields == {"username", "password1", "password2", "first_name", "last_name"}

CustomerCreationFormFields == {"username", "password1", "password2", "first_name", "last_name"}

cleaned_data(post, fields) == Restrict(post, fields)

(* The creation form is valid when the username is given and no other row  *)
(* holds it (the model's unique validation; passwords are not modelled).   *)
UserFormValid(post, self) ==
    /\ "username" \in DOMAIN post
    /\ post["username"] # <<>>
    /\ ~UsernameTaken(users, post["username"], self)

(* ModelForm.save(commit=False): the form writes its own fields, and only  *)
(* those, onto the instance (username is the one modelled).                *)
ApplyUserFormWithRole(inst, post, fields) ==
    [inst EXCEPT !.username = post["username"], !.role = post["role"]]

ApplyUserForm(inst, post, fields) ==
    [inst EXCEPT !.username = cleaned_data(post, fields)["username"]]

PriceKey(sid) == "price_" \o ToString(sid)

(* form.cleaned_data.get('services', []) *)
SelectedServices(cleaned) ==
    IF "services" \in DOMAIN cleaned THEN cleaned["services"] ELSE {}

NoPrice == -1

(* form.cleaned_data.get('price_' + str(service.id)) *)
SubmittedPrice(cleaned, sid) ==
    IF PriceKey(sid) \in DOMAIN cleaned THEN cleaned[PriceKey(sid)] ELSE NoPrice

(* The POST body of the master and customer forms: username, a role, the   *)
(* selected services and one price_<id> entry per selected service.        *)
UserPost(username, role, selected, price) ==
    [k \in {"username", "role", "services"} \cup {PriceKey(s) : s \in selected} |->
        CASE k = "username" -> username
          [] k = "role" -> role
          [] k = "services" -> selected
          [] OTHER -> price[CHOOSE s \in selected : PriceKey(s) = k]]

Prices == {10, 15}

UserPosts(names, roles, serviceIds) ==
    UNION {{UserPost(n, r, S, p) : n \in names, r \in roles, p \in [S -> Prices]} :
           S \in SUBSET serviceIds}

(***************************************************************************)
(* Deleting a Master or Customer deletes its User row too (multi-table     *)
(* inheritance) and, by on_delete=CASCADE, the Events and PriceList rows   *)
(* that reference the master.                                              *)
(***************************************************************************)
RowsOfNoMaster(tbl, m) == {}

RowsOfMaster(tbl, m) == {r \in DOMAIN tbl : tbl[r].master = m}

RowsOfService(tbl, s) == {r \in DOMAIN tbl : tbl[r].service = s}

DeleteUser(pk) ==
    /\ users' = Drop(users, {pk})
    /\ pricelist' = Drop(pricelist, RowsOfMaster(pricelist, pk))
    /\ events' = Drop(events, RowsOfMaster(events, pk))
    /\ master_customers' = {mc \in master_customers : mc[1] # pk /\ mc[2] # pk}
    /\ UNCHANGED <<services, seq>>

(***************************************************************************)
(* Timestamps and strftime("%Y-%m-%d %H:%M:%S").                           *)
(***************************************************************************)
DateTime(y, mo, d, h, mi, s) ==
    [year |-> y, month |-> mo, day |-> d, hour |-> h, minute |-> mi, second |-> s]

DigitChar(d) == <<"0", "1", "2", "3", "4", "5", "6", "7", "8", "9">>[d + 1]

(* n in decimal, zero-padded to w digits (years are four-digit here). *)
RECURSIVE Pad(_, _)
Pad(n, w) == IF w = 0 THEN <<>> ELSE Append(Pad(n \div 10, w - 1), DigitChar(n % 10))

strftime(dt) ==
    Pad(dt.year, 4) \o <<"-">> \o Pad(dt.month, 2) \o <<"-">> \o Pad(dt.day, 2) \o <<" ">>
        \o Pad(dt.hour, 2) \o <<":">> \o Pad(dt.minute, 2) \o <<":">> \o Pad(dt.second, 2)

EventJson(id) ==
    [title |-> events[id].title, id |-> id,
     start |-> strftime(events[id].start_date), end |-> strftime(events[id].end_date)]

(* The rows with ids in ids, as a list in id order. *)
RECURSIVE InIdOrder(_)
InIdOrder(ids) ==
    IF ids = {} THEN <<>>
    ELSE LET least == CHOOSE i \in ids : \A j \in ids : i <= j
         IN  <<least>> \o InIdOrder(ids \ {least})

EventList(ids) == [i \in 1..Cardinality(ids) |-> EventJson(InIdOrder(ids)[i])]

(***************************************************************************)
(* index and the list and detail views: login required, read only.         *)
(***************************************************************************)
index(u) ==
    Reply("index", u, NoPk, NoData,
          IF ~is_authenticated(u) THEN RedirectToLogin
          ELSE Ok([num_masters |-> Cardinality(Masters(users)),
                   num_customers |-> Cardinality(Customers(users))]))

SearchMaxLength == 255

(* A search form (one optional CharField): the value is stripped, an       *)
(* absent value cleans to the empty string, and the form is valid when the *)
(* cleaned value is no longer than max_length.                             *)
SearchValue(get, field) == IF field \in DOMAIN get THEN Strip(get[field]) ELSE <<>>

SearchFormValid(get, field) == Len(SearchValue(get, field)) <= SearchMaxLength

MasterQuerysetAnyRole(get) ==
    LET queryset == Masters(users)
    IN  IF SearchFormValid(get, "username")
        THEN {m \in queryset : IContains(users[m].username, SearchValue(get, "username"))}
        ELSE queryset

MasterListView_get_queryset(get) ==
    LET queryset == {m \in Masters(users) : users[m].role = "MASTER"}
    IN  IF SearchFormValid(get, "username")
        THEN {m \in queryset : IContains(users[m].username, SearchValue(get, "username"))}
        ELSE queryset

CustomerListView_get_queryset(get) ==
    LET queryset == {c \in Customers(users) : users[c].role = "CUSTOMER"}
    IN  IF SearchFormValid(get, "username")
        THEN {c \in queryset : IContains(users[c].username, SearchValue(get, "username"))}
        ELSE queryset

ServicesListView_get_queryset(get) ==
    LET queryset == DOMAIN services
    IN  IF SearchFormValid(get, "name")
        THEN {s \in queryset : IContains(services[s].name, SearchValue(get, "name"))}
        ELSE queryset

LoginNotRequired(u, response) == response

LoginRequired(u, response) == IF ~is_authenticated(u) THEN RedirectToLogin ELSE response

MasterListView(u, get) ==
    Reply("master-list", u, NoPk, get, LoginRequired(u, Ok(MasterListView_get_queryset(get))))

CustomerListView(u, get) ==
    Reply("customer-list", u, NoPk, get, LoginRequired(u, Ok(CustomerListView_get_queryset(get))))

ServicesListView(u, get) ==
    Reply("services-list", u, NoPk, get, LoginRequired(u, Ok(ServicesListView_get_queryset(get))))

(* queryset = Master.objects.filter(role=User.Role.MASTER) *)
MasterDetailView(u, pk) ==
    Reply("master-detail", u, pk, NoData,
          LoginRequired(u,
              IF pk \in Masters(users) /\ users[pk].role = "MASTER"
              THEN Ok(EventList(RowsOfMaster(events, pk)))
              ELSE NotFound))

(* queryset = Customer.objects.all() *)
CustomerDetailView(u, pk) ==
    Reply("customer-detail", u, pk, NoData,
          LoginRequired(u, IF pk \in Customers(users) THEN Ok({}) ELSE NotFound))

(***************************************************************************)
(* The loop of MasterCreateView.form_valid and MasterUpdateView.form_valid *)
(* over the selected services, in id order: one PriceList row per service  *)
(* with the price read from cleaned_data; a missing price (None) violates  *)
(* the column's NOT NULL constraint and ends the request with an error,    *)
(* the rows created before it staying (there is no transaction).           *)
(***************************************************************************)
PriceRow(master, service, price) == [master |-> master, service |-> service, price |-> price]

RECURSIVE CreatePriceRows(_, _, _, _, _)
CreatePriceRows(tbl, last, master, cleaned, todo) ==
    IF todo = <<>> THEN [rows |-> tbl, last |-> last, failed |-> FALSE]
    ELSE LET sid == Head(todo)
             price == SubmittedPrice(cleaned, sid)
         IN  IF price = NoPrice
             THEN [rows |-> tbl, last |-> last, failed |-> TRUE]
             ELSE CreatePriceRows(Put(tbl, last + 1, PriceRow(master, sid, price)),
                                  last + 1, master, cleaned, Tail(todo))

(***************************************************************************)
(* Registration: MasterCreateView and CustomerCreateView carry no login    *)
(* requirement.                                                            *)
(***************************************************************************)
MasterCreateView(u, post) ==
    /\ seq.user < MaxUsers
    /\ req' = Request("master-create", u, NoPk, post)
    /\ IF ~UserFormValid(post, NoPk)
       THEN /\ resp' = Ok({})
            /\ DbUnchanged
       ELSE LET cleaned == cleaned_data(post, MasterCreationFormFields)
                id == seq.user + 1
                first == User_save(users, NoPk,
                                   ApplyUserForm(NewUser("Master", <<>>, ""), post,
                                                 MasterCreationFormFields))
                made == CreatePriceRows(pricelist, seq.price, id, cleaned,
                                        InIdOrder(SelectedServices(cleaned)))
            IN  /\ pricelist' = made.rows
                /\ seq' = [seq EXCEPT !.user = id, !.price = made.last]
                /\ users' = IF made.failed THEN first ELSE User_save(first, id, first[id])
                /\ resp' = IF made.failed THEN ServerError ELSE RedirectTo("master-list")
                /\ UNCHANGED <<services, events, master_customers>>

CustomerCreateView(u, post) ==
    /\ seq.user < MaxUsers
    /\ req' = Request("customer-create", u, NoPk, post)
    /\ IF ~UserFormValid(post, NoPk)
       THEN /\ resp' = Ok({})
            /\ DbUnchanged
       ELSE LET inst == ApplyUserForm(NewUser("Customer", <<>>, ""), post,
                                      CustomerCreationFormFields)
            IN  /\ users' = User_save(users, NoPk, inst)
                /\ seq' = [seq EXCEPT !.user = @ + 1]
                /\ resp' = RedirectTo("customer-list")
                /\ UNCHANGED <<services, pricelist, events, master_customers>>

(***************************************************************************)
(* Update and delete of Master and Customer.  LoginRequiredMixin runs      *)
(* first and calls the view's own handle_no_permission (the forbidden      *)
(* page); then UserPassesTestMixin runs test_func, whose get_object()      *)
(* answers not-found for a missing row; then the handler runs.             *)
(***************************************************************************)
MasterUpdateView_test_func(u, pk) == u = pk

MasterDeleteView_test_func(u, pk) == u = pk

CustomerUpdateView_test_func(u, pk) == u = pk

CustomerDeleteView_test_func(u, pk) == u = pk

MasterUpdateView(u, pk, post) ==
    /\ req' = Request("master-update", u, pk, post)
    /\ IF ~is_authenticated(u) THEN resp' = Forbidden /\ DbUnchanged
       ELSE IF pk \notin Masters(users) THEN resp' = NotFound /\ DbUnchanged
       ELSE IF ~MasterUpdateView_test_func(u, pk) THEN resp' = Forbidden /\ DbUnchanged
       ELSE IF ~UserFormValid(post, pk) THEN resp' = Ok({}) /\ DbUnchanged
       ELSE LET cleaned == cleaned_data(post, MasterCreationFormFields)
                first == User_save(users, pk,
                                   ApplyUserForm(users[pk], post, MasterCreationFormFields))
                kept == Drop(pricelist, RowsOfMaster(pricelist, pk))
                made == CreatePriceRows(kept, seq.price, pk, cleaned,
                                        InIdOrder(SelectedServices(cleaned)))
            IN  /\ pricelist' = made.rows
                /\ seq' = [seq EXCEPT !.price = made.last]
                /\ users' = IF made.failed THEN first ELSE User_save(first, pk, first[pk])
                /\ resp' = IF made.failed THEN ServerError ELSE RedirectTo("master-list")
                /\ UNCHANGED <<services, events, master_customers>>

MasterDeleteView(u, pk) ==
    /\ req' = Request("master-delete", u, pk, NoData)
    /\ IF ~is_authenticated(u) THEN resp' = Forbidden /\ DbUnchanged
       ELSE IF pk \notin Masters(users) THEN resp' = NotFound /\ DbUnchanged
       ELSE IF ~MasterDeleteView_test_func(u, pk) THEN resp' = Forbidden /\ DbUnchanged
       ELSE resp' = RedirectTo("master-list") /\ DeleteUser(pk)

CustomerUpdateView(u, pk, post) ==
    /\ req' = Request("customer-update", u, pk, post)
    /\ IF ~is_authenticated(u) THEN resp' = Forbidden /\ DbUnchanged
       ELSE IF pk \notin Customers(users) THEN resp' = NotFound /\ DbUnchanged
       ELSE IF ~CustomerUpdateView_test_func(u, pk) THEN resp' = Forbidden /\ DbUnchanged
       ELSE IF ~UserFormValid(post, pk) THEN resp' = Ok({}) /\ DbUnchanged
       ELSE LET inst == ApplyUserForm(users[pk], post, CustomerCreationFormFields)
            IN  /\ users' = User_save(users, pk, inst)
                /\ resp' = RedirectTo("customer-list")
                /\ UNCHANGED <<services, pricelist, events, seq, master_customers>>

CustomerDeleteView(u, pk) ==
    /\ req' = Request("customer-delete", u, pk, NoData)
    /\ IF ~is_authenticated(u) THEN resp' = Forbidden /\ DbUnchanged
       ELSE IF pk \notin Customers(users) THEN resp' = NotFound /\ DbUnchanged
       ELSE IF ~CustomerDeleteView_test_func(u, pk) THEN resp' = Forbidden /\ DbUnchanged
       ELSE resp' = RedirectTo("customer-list") /\ DeleteUser(pk)

(***************************************************************************)
(* Services create, update and delete.  None of the three test_func calls  *)
(* get_object(), so the access test is answered before the row is looked   *)
(* up.  user.master raises when the user has no Master row, and nothing    *)
(* catches it.                                                             *)
(***************************************************************************)
ServiceRow(name, price) == [name |-> name, price |-> price]

NameTaken(name, self) == \E s \in (DOMAIN services) \ {self} : services[s].name = name

NameAlwaysFree(name, self) == TRUE

(* Services.name is unique: the model form's unique validation. *)
NameUnique(name, self) == ~NameTaken(name, self)

(* Services.objects.create(name=..., price=...): the unique constraint of  *)
(* the table refuses a second row with the same name.                      *)
Services_create(name, price) ==
    /\ seq.service < MaxServices
    /\ req' = Request("services.create", Anonymous, NoPk, ServiceRow(name, price))
    /\ IF ~NameUnique(name, NoPk)
       THEN /\ resp' = Response("INTEGRITY_ERROR", "", {})
            /\ DbUnchanged
       ELSE /\ services' = Put(services, seq.service + 1, ServiceRow(name, price))
            /\ seq' = [seq EXCEPT !.service = @ + 1]
            /\ resp' = Response("SAVED", "", {})
            /\ UNCHANGED <<users, pricelist, events, master_customers>>

ServicesFormValid(post, self) == post.name # <<>> /\ NameUnique(post.name, self)

(* "allow", "deny" or "error" *)
ServicesCreateView_test_func(u) ==
    IF users[u].role = "MASTER"
    THEN IF has_master(u) THEN "allow" ELSE "error"
    ELSE "deny"

ServicesUpdateView_test_func(u) == IF users[u].role = "ADMIN" THEN "allow" ELSE "deny"

ServicesDeleteView_test_func(u) == IF users[u].role = "ADMIN" THEN "allow" ELSE "deny"

ServicesCreateView(u, post) ==
    /\ seq.service < MaxServices
    /\ req' = Request("services-create", u, NoPk, post)
    /\ IF ~is_authenticated(u) THEN resp' = Forbidden /\ DbUnchanged
       ELSE IF ServicesCreateView_test_func(u) = "error" THEN resp' = ServerError /\ DbUnchanged
       ELSE IF ServicesCreateView_test_func(u) = "deny" THEN resp' = Forbidden /\ DbUnchanged
       ELSE IF ~ServicesFormValid(post, NoPk) THEN resp' = Ok({}) /\ DbUnchanged
       ELSE /\ services' = Put(services, seq.service + 1, ServiceRow(post.name, post.price))
            /\ seq' = [seq EXCEPT !.service = @ + 1]
            /\ resp' = RedirectTo("services-list")
            /\ UNCHANGED <<users, pricelist, events, master_customers>>

ServicesUpdateView(u, pk, post) ==
    /\ req' = Request("services-update", u, pk, post)
    /\ IF ~is_authenticated(u) THEN resp' = Forbidden /\ DbUnchanged
       ELSE IF ServicesUpdateView_test_func(u) = "deny" THEN resp' = Forbidden /\ DbUnchanged
       ELSE IF pk \notin DOMAIN services THEN resp' = NotFound /\ DbUnchanged
       ELSE IF ~ServicesFormValid(post, pk) THEN resp' = Ok({}) /\ DbUnchanged
       ELSE /\ services' = Put(services, pk, ServiceRow(post.name, post.price))
            /\ resp' = RedirectTo("services-list")
            /\ UNCHANGED <<users, pricelist, events, seq, master_customers>>

ServicesDeleteView(u, pk) ==
    /\ req' = Request("services-delete", u, pk, NoData)
    /\ IF ~is_authenticated(u) THEN resp' = Forbidden /\ DbUnchanged
       ELSE IF ServicesDeleteView_test_func(u) = "deny" THEN resp' = Forbidden /\ DbUnchanged
       ELSE IF pk \notin DOMAIN services THEN resp' = NotFound /\ DbUnchanged
       ELSE /\ services' = Drop(services, {pk})
            /\ pricelist' = Drop(pricelist, RowsOfService(pricelist, pk))
            /\ resp' = RedirectTo("services-list")
            /\ UNCHANGED <<users, events, seq, master_customers>>

(***************************************************************************)
(* PriceList create, update and delete.  PriceListForm has every field of  *)
(* the model, master included.                                             *)
(***************************************************************************)
PriceListFormValidUnique(post) ==
    /\ post.master \in Masters(users)
    /\ post.service \in DOMAIN services
    /\ post.price # NoPrice
    /\ ~\E p \in DOMAIN pricelist :
          pricelist[p].master = post.master /\ pricelist[p].service = post.service

PriceListFormValid(post) ==
    /\ post.master \in Masters(users)
    /\ post.service \in DOMAIN services
    /\ post.price # NoPrice

PriceListCreateView_test_func(u) ==
    IF users[u].role = "MASTER"
    THEN IF has_master(u) THEN "allow" ELSE "error"
    ELSE "deny"

AnyMasterPasses(u, pk) == has_master(u)

(* price_list.master == self.request.user.master, False when the user has  *)
(* no Master row (ObjectDoesNotExist is caught).                           *)
PriceListUpdateView_test_func(u, pk) == has_master(u) /\ pricelist[pk].master = u

PriceListDeleteView_test_func(u, pk) == has_master(u) /\ pricelist[pk].master = u

FormMasterKept(u, post) == PriceRow(post.master, post.service, post.price)

(* form.instance.master = self.request.user.master, then the form is saved *)
PriceListCreateView_form_valid(u, post) == PriceRow(u, post.service, post.price)

PriceListCreateView(u, post) ==
    /\ seq.price < MaxPriceRows
    /\ req' = Request("price-list-create", u, NoPk, post)
    /\ IF ~is_authenticated(u) THEN resp' = Forbidden /\ DbUnchanged
       ELSE IF PriceListCreateView_test_func(u) = "error" THEN resp' = ServerError /\ DbUnchanged
       ELSE IF PriceListCreateView_test_func(u) = "deny" THEN resp' = Forbidden /\ DbUnchanged
       ELSE IF ~PriceListFormValid(post) THEN resp' = Ok({}) /\ DbUnchanged
       ELSE /\ pricelist' = Put(pricelist, seq.price + 1, PriceListCreateView_form_valid(u, post))
            /\ seq' = [seq EXCEPT !.price = @ + 1]
            /\ resp' = RedirectTo("master-list")
            /\ UNCHANGED <<users, services, events, master_customers>>

PriceListUpdateView(u, pk, post) ==
    /\ req' = Request("price-list-update", u, pk, post)
    /\ IF ~is_authenticated(u) THEN resp' = Forbidden /\ DbUnchanged
       ELSE IF pk \notin DOMAIN pricelist THEN resp' = NotFound /\ DbUnchanged
       ELSE IF ~PriceListUpdateView_test_func(u, pk) THEN resp' = Forbidden /\ DbUnchanged
       ELSE IF ~PriceListFormValid(post) THEN resp' = Ok({}) /\ DbUnchanged
       ELSE /\ pricelist' = Put(pricelist, pk, PriceRow(post.master, post.service, post.price))
            /\ resp' = RedirectTo("master-list")
            /\ UNCHANGED <<users, services, events, seq, master_customers>>

PriceListDeleteView(u, pk) ==
    /\ req' = Request("price-list-delete", u, pk, NoData)
    /\ IF ~is_authenticated(u) THEN resp' = Forbidden /\ DbUnchanged
       ELSE IF pk \notin DOMAIN pricelist THEN resp' = NotFound /\ DbUnchanged
       ELSE IF ~PriceListDeleteView_test_func(u, pk) THEN resp' = Forbidden /\ DbUnchanged
       ELSE /\ pricelist' = Drop(pricelist, {pk})
            /\ resp' = RedirectTo("master-list")
            /\ UNCHANGED <<users, services, events, seq, master_customers>>

(***************************************************************************)
(* Parsing of timestamps: datetime.strptime(s, "%Y-%m-%d %H:%M:%S") in     *)
(* add_event, and the DateTimeField's own parsing of the raw string that   *)
(* update assigns.  A string is cut into runs of digits and single other   *)
(* characters; years have four digits, the other fields one or two.        *)
(***************************************************************************)
Digits == {"0", "1", "2", "3", "4", "5", "6", "7", "8", "9"}

DigitValue(c) == CHOOSE d \in 0..9 : DigitChar(d) = c

RECURSIVE Tokens(_)
Tokens(s) ==
    IF s = <<>> THEN <<>>
    ELSE LET rest == Tokens(Tail(s))
         IN  IF Head(s) \in Digits /\ rest # <<>> /\ Head(rest)[1] \in Digits
             THEN <<<<Head(s)>> \o Head(rest)>> \o Tail(rest)
             ELSE <<<<Head(s)>>>> \o rest

RECURSIVE Number(_)
Number(run) ==
    IF run = <<>> THEN 0 ELSE 10 * Number(SubSeq(run, 1, Len(run) - 1)) + DigitValue(run[Len(run)])

IsRun(tok, least, most) == tok[1] \in Digits /\ Len(tok) >= least /\ Len(tok) <= most

DaysIn(month) == IF month = 2 THEN 28 ELSE IF month \in {4, 6, 9, 11} THEN 30 ELSE 31

ParseError == [error |-> TRUE]

MissingParam == <<"N", "o", "n", "e">>

strptime(s) ==
    LET t == Tokens(s)
    IN  IF /\ s # MissingParam
           /\ Len(t) = 11
           /\ t[2] = <<"-">> /\ t[4] = <<"-">> /\ t[6] = <<" ">>
           /\ t[8] = <<":">> /\ t[10] = <<":">>
           /\ IsRun(t[1], 4, 4)
           /\ \A i \in {3, 5, 7, 9, 11} : IsRun(t[i], 1, 2)
           /\ Number(t[3]) \in 1..12
           /\ Number(t[5]) \in 1..DaysIn(Number(t[3]))
           /\ Number(t[7]) \in 0..23
           /\ Number(t[9]) \in 0..59
           /\ Number(t[11]) \in 0..59
        THEN DateTime(Number(t[1]), Number(t[3]), Number(t[5]),
                      Number(t[7]), Number(t[9]), Number(t[11]))
        ELSE ParseError

(* DateTimeField.to_python on a string: the same layout, the seconds       *)
(* optional. *)
to_python(s) ==
    LET t == Tokens(s)
    IN  IF Len(t) = 9 THEN strptime(s \o <<":", "0", "0">>) ELSE strptime(s)

(***************************************************************************)
(* The event endpoints.  all_events carries no decorator; the other three  *)
(* carry master_required only, whose wrapper reads request.user.role       *)
(* (AnonymousUser has no such attribute) and raises PermissionDenied for   *)
(* every role but MASTER.                                                  *)
(***************************************************************************)
EventRowSwapped(title, start, end, master) ==
    [title |-> title, start_date |-> end, end_date |-> start, master |-> master]

EventRow(title, start, end, master) ==
    [title |-> title, start_date |-> start, end_date |-> end, master |-> master]

OwnEventsOnly(u) == RowsOfMaster(events, u)

(* Events.objects.all() *)
AllEvents(u) == DOMAIN events

all_events(u) == Reply("all_events", u, NoPk, NoData, Ok(EventList(AllEvents(u))))

RoleNotRequired(u) == IF ~is_authenticated(u) THEN "error" ELSE "allow"

(* "allow", "deny" or "error" *)
master_required(u) ==
    IF ~is_authenticated(u) THEN "error"
    ELSE IF users[u].role # "MASTER" THEN "deny"
    ELSE "allow"

Param(get, key) == IF key \in DOMAIN get THEN get[key] ELSE MissingParam

add_event(u, get) ==
    /\ seq.event < MaxEvents
    /\ req' = Request("add_event", u, NoPk, get)
    /\ IF master_required(u) = "error" THEN resp' = ServerError /\ DbUnchanged
       ELSE IF master_required(u) = "deny" THEN resp' = Forbidden /\ DbUnchanged
       ELSE LET start_date == strptime(Param(get, "start"))
                end_date == strptime(Param(get, "end"))
                title == Param(get, "title")
            IN  IF \/ start_date = ParseError
                   \/ end_date = ParseError
                   \/ ~has_master(u)
                   \/ title = MissingParam
                THEN resp' = ServerError /\ DbUnchanged
                ELSE /\ events' = Put(events, seq.event + 1,
                                      EventRow(title, start_date, end_date, u))
                     /\ seq' = [seq EXCEPT !.event = @ + 1]
                     /\ resp' = Ok(NoData)
                     /\ UNCHANGED <<users, services, pricelist, master_customers>>

AnyMasterOwnsEvent(u, id) == TRUE

(* event.master == user.master, for a user who has a Master row *)
OwnsEvent(u, id) == events[id].master = u

(* Events.objects.get(id=id) raises DoesNotExist for a missing id, and     *)
(* nothing catches it. *)
update(u, id, get) ==
    /\ req' = Request("update", u, id, get)
    /\ IF master_required(u) = "error" THEN resp' = ServerError /\ DbUnchanged
       ELSE IF master_required(u) = "deny" THEN resp' = Forbidden /\ DbUnchanged
       ELSE IF id \notin DOMAIN events THEN resp' = ServerError /\ DbUnchanged
       ELSE IF ~has_master(u) THEN resp' = ServerError /\ DbUnchanged
       ELSE IF ~OwnsEvent(u, id) THEN resp' = Ok(NoData) /\ DbUnchanged
       ELSE LET start_date == to_python(Param(get, "start"))
                end_date == to_python(Param(get, "end"))
                title == Param(get, "title")
            IN  IF \/ start_date = ParseError
                   \/ end_date = ParseError
                   \/ title = MissingParam
                THEN resp' = ServerError /\ DbUnchanged
                ELSE /\ events' = Put(events, id,
                                      EventRow(title, start_date, end_date, events[id].master))
                     /\ resp' = Ok(NoData)
                     /\ UNCHANGED <<users, services, pricelist, seq, master_customers>>

remove(u, id) ==
    /\ req' = Request("remove", u, id, NoData)
    /\ IF master_required(u) = "error" THEN resp' = ServerError /\ DbUnchanged
       ELSE IF master_required(u) = "deny" THEN resp' = Forbidden /\ DbUnchanged
       ELSE IF id \notin DOMAIN events THEN resp' = ServerError /\ DbUnchanged
       ELSE IF ~has_master(u) THEN resp' = ServerError /\ DbUnchanged
       ELSE IF ~OwnsEvent(u, id) THEN resp' = Ok(NoData) /\ DbUnchanged
       ELSE /\ events' = Drop(events, {id})
            /\ resp' = Ok(NoData)
            /\ UNCHANGED <<users, services, pricelist, seq, master_customers>>

(***************************************************************************)
(* Subscriptions.  customer.master_customers is the reverse side of        *)
(* Master.customers; master_customers holds the rows <<master, customer>>  *)
(* of its table.  Both views look the Customer of request.user up with     *)
(* Customer.objects.get, whose DoesNotExist nothing catches, before        *)
(* get_object_or_404 looks the master up.  The response carries the        *)
(* message the view leaves for the next page.                              *)
(***************************************************************************)
MasterDetailUrl(pk) == "master-detail/" \o ToString(pk)

Message(level, text) == {<<level, text>>}

subscribe_to_master(u, pk) ==
    /\ req' = Request("subscribe_to_master", u, pk, NoData)
    /\ IF ~is_authenticated(u) THEN resp' = RedirectToLogin /\ DbUnchanged
       ELSE IF u \notin Customers(users) THEN resp' = ServerError /\ DbUnchanged
       ELSE IF pk \notin Masters(users) THEN resp' = NotFound /\ DbUnchanged
       ELSE /\ master_customers' = master_customers \cup {<<pk, u>>}
            /\ resp' = Response("REDIRECT", MasterDetailUrl(pk),
                                Message("success", "Successfully subscribed to the master."))
            /\ UNCHANGED <<users, services, pricelist, events, seq>>

unsubscribe_from_master(u, pk) ==
    /\ req' = Request("unsubscribe_from_master", u, pk, NoData)
    /\ IF ~is_authenticated(u) THEN resp' = RedirectToLogin /\ DbUnchanged
       ELSE IF u \notin Customers(users) THEN resp' = ServerError /\ DbUnchanged
       ELSE IF pk \notin Masters(users) THEN resp' = NotFound /\ DbUnchanged
       ELSE IF <<pk, u>> \in master_customers
       THEN /\ master_customers' = master_customers \ {<<pk, u>>}
            /\ resp' = Response("REDIRECT", MasterDetailUrl(pk),
                                Message("success", "Successfully unsubscribed from the master."))
            /\ UNCHANGED <<users, services, pricelist, events, seq>>
       ELSE /\ resp' = Response("REDIRECT", MasterDetailUrl(pk),
                                Message("error", "You are not subscribed to this master."))
            /\ DbUnchanged

(***************************************************************************)
(* The empty database, and the identity part of the application.           *)
(***************************************************************************)
Empty == [x \in {} |-> 0]

Init ==
    /\ users = Empty
    /\ services = Empty
    /\ pricelist = Empty
    /\ events = Empty
    /\ master_customers = {}
    /\ seq = [user |-> 0, service |-> 0, price |-> 0, event |-> 0]
    /\ req = Request("none", Anonymous, NoPk, NoData)
    /\ resp = Response("NONE", "", {})

UserIds == 1..MaxUsers

AccountNames == {<<"a", "b">>, <<"B">>}

(* Registration posts carry any role value; update posts carry one. *)
RegistrationPosts == UserPosts(AccountNames, Roles, {})

AccountPosts == UserPosts(AccountNames, {"ADMIN"}, {})

NextAccounts ==
    \/ \E k \in Kinds, n \in AccountNames, r \in Roles : ModelCreate(k, n, r)
    \/ \E pk \in UserIds, r \in Roles : ModelSave(pk, r)
    \/ \E u \in Principals, post \in RegistrationPosts : MasterCreateView(u, post)
    \/ \E u \in Principals, post \in RegistrationPosts : CustomerCreateView(u, post)
    \/ \E u \in Principals, pk \in UserIds, post \in AccountPosts : MasterUpdateView(u, pk, post)
    \/ \E u \in Principals, pk \in UserIds, post \in AccountPosts : CustomerUpdateView(u, pk, post)
    \/ \E u \in Principals, pk \in UserIds : MasterDeleteView(u, pk)
    \/ \E u \in Principals, pk \in UserIds : CustomerDeleteView(u, pk)
    \/ \E u \in Principals, pk \in UserIds : MasterDetailView(u, pk)
    \/ \E u \in Principals, pk \in UserIds : CustomerDetailView(u, pk)
    \/ \E u \in Principals : index(u)

SpecAccounts == Init /\ [][NextAccounts]_vars

(***************************************************************************)
(* The list and detail pages over the identity tables.                     *)
(***************************************************************************)
SearchGets(field) == {NoData} \cup {[k \in {field} |-> q] : q \in Queries}

NextSearch ==
    \/ \E k \in Kinds, n \in AccountNames, r \in Roles : ModelCreate(k, n, r)
    \/ \E pk \in UserIds, r \in Roles : ModelSave(pk, r)
    \/ \E u \in Principals, get \in SearchGets("username") : MasterListView(u, get)
    \/ \E u \in Principals, get \in SearchGets("username") : CustomerListView(u, get)
    \/ \E u \in Principals, get \in {NoData, [name |-> <<"a">>]} : ServicesListView(u, get)
    \/ \E u \in Principals, pk \in UserIds : MasterDetailView(u, pk)
    \/ \E u \in Principals, pk \in UserIds : CustomerDetailView(u, pk)

SpecSearch == Init /\ [][NextSearch]_vars

(***************************************************************************)
(* A database with two masters, a customer, an administrator and two       *)
(* services, as registration and the services pages leave it.              *)
(***************************************************************************)
SeedUsers ==
    <<NewUser("Master", <<"a", "b">>, "MASTER"), NewUser("Master", <<"B">>, "MASTER"),
      NewUser("Customer", <<"b", "a">>, "CUSTOMER"), NewUser("User", <<"a">>, "ADMIN")>>

SeedServices == <<ServiceRow(<<"a">>, 10), ServiceRow(<<"B">>, 10)>>

InitSeeded ==
    /\ users = SeedUsers
    /\ services = SeedServices
    /\ pricelist = Empty
    /\ events = Empty
    /\ master_customers = {}
    /\ seq = [user |-> Len(SeedUsers), service |-> Len(SeedServices), price |-> 0, event |-> 0]
    /\ req = Request("none", Anonymous, NoPk, NoData)
    /\ resp = Response("NONE", "", {})

SeedUserIds == 1..Len(SeedUsers)

(* The requests of the owner pages come from a visitor who is not logged   *)
(* in, from the two masters and from the customer.                         *)
OwnerPrincipals == {u \in Principals : u = Anonymous \/ users[u].kind # "User"}

OwnerTargets == {u \in SeedUserIds : SeedUsers[u].kind # "User"}

PriceIds == 1..MaxPriceRows

OwnerNames == {<<"a", "a">>}

(* master-update posts: a username, and either no service selected or the  *)
(* first service selected at the submitted price.                          *)
MasterUpdatePosts ==
    {UserPost(n, "ADMIN", S, [s \in S |-> 15]) : n \in OwnerNames, S \in {{}, {1}}}

CustomerUpdatePosts == UserPosts(OwnerNames, {"ADMIN"}, {})

PriceListPosts ==
    {[master |-> m, service |-> 1, price |-> p] : m \in Masters(SeedUsers), p \in Prices}

NextOwner ==
    \/ \E u \in OwnerPrincipals, pk \in OwnerTargets, post \in MasterUpdatePosts :
            MasterUpdateView(u, pk, post)
    \/ \E u \in OwnerPrincipals, pk \in OwnerTargets : MasterDeleteView(u, pk)
    \/ \E u \in OwnerPrincipals, pk \in OwnerTargets, post \in CustomerUpdatePosts :
            CustomerUpdateView(u, pk, post)
    \/ \E u \in OwnerPrincipals, pk \in OwnerTargets : CustomerDeleteView(u, pk)
    \/ \E u \in OwnerPrincipals, post \in PriceListPosts : PriceListCreateView(u, post)
    \/ \E u \in OwnerPrincipals, pk \in PriceIds, post \in PriceListPosts :
            PriceListUpdateView(u, pk, post)
    \/ \E u \in OwnerPrincipals, pk \in PriceIds : PriceListDeleteView(u, pk)

SpecOwner == InitSeeded /\ [][NextOwner]_vars

(***************************************************************************)
(* The services pages, from the seeded users and an empty catalogue.       *)
(***************************************************************************)
InitCatalog ==
    /\ users = SeedUsers
    /\ services = Empty
    /\ pricelist = Empty
    /\ events = Empty
    /\ master_customers = {}
    /\ seq = [user |-> Len(SeedUsers), service |-> 0, price |-> 0, event |-> 0]
    /\ req = Request("none", Anonymous, NoPk, NoData)
    /\ resp = Response("NONE", "", {})

ServiceNames == {<<"a">>, <<"B">>, <<"a", "B">>}

ServicePosts == {[name |-> n, price |-> 10] : n \in ServiceNames}

ServiceIds == 1..(MaxServices + 1)

NextCatalog ==
    \/ \E n \in ServiceNames : Services_create(n, 10)
    \/ \E u \in Principals, post \in ServicePosts : ServicesCreateView(u, post)
    \/ \E u \in Principals, pk \in ServiceIds, post \in ServicePosts :
            ServicesUpdateView(u, pk, post)
    \/ \E u \in Principals, pk \in ServiceIds : ServicesDeleteView(u, pk)
    \/ \E u \in Principals, get \in {NoData, [name |-> <<"a">>]} : ServicesListView(u, get)

SpecCatalog == InitCatalog /\ [][NextCatalog]_vars

(***************************************************************************)
(* The calendar, from the seeded users.                                    *)
(***************************************************************************)
EventPrincipals == Principals

EventIds == 1..(MaxEvents + 1)

Morning == DateTime(2023, 1, 1, 10, 0, 0)

Evening == DateTime(2023, 12, 31, 19, 5, 7)

Title == <<"a">>

(* The role saved again on a stored row: the administrator, who has no     *)
(* Master row, becomes a MASTER by role. *)
RoleChanges == {<<4, "MASTER">>}

EventGets(starts, ends) ==
    {[k \in {"start", "end", "title"} |->
        CASE k = "start" -> st [] k = "end" -> en [] OTHER -> Title] :
        st \in starts, en \in ends}

NextEvents ==
    \/ \E u \in EventPrincipals : all_events(u)
    \/ \E u \in EventPrincipals,
          get \in EventGets({strftime(Morning), strftime(Evening), <<"a">>}, {strftime(Morning)}) :
            add_event(u, get)
    \/ \E u \in EventPrincipals, id \in EventIds,
          get \in EventGets({strftime(Morning), <<"a">>}, {strftime(Evening)}) :
            update(u, id, get)
    \/ \E u \in EventPrincipals, id \in EventIds : remove(u, id)
    \/ \E c \in RoleChanges : ModelSave(c[1], c[2])

SpecEvents == InitSeeded /\ [][NextEvents]_vars

(***************************************************************************)
(* Subscriptions, from the seeded users: every user and a visitor who is   *)
(* not logged in subscribe to and unsubscribe from the stored users and a  *)
(* missing one, and the masters and the customer delete their accounts.    *)
(***************************************************************************)
SubscriptionTargets == 1..(Len(SeedUsers) + 1)

NextSubscriptions ==
    \/ \E u \in Principals, pk \in SubscriptionTargets : subscribe_to_master(u, pk)
    \/ \E u \in Principals, pk \in SubscriptionTargets : unsubscribe_from_master(u, pk)
    \/ \E u \in Principals \ {Anonymous} : MasterDeleteView(u, u)
    \/ \E u \in Principals \ {Anonymous} : CustomerDeleteView(u, u)

SpecSubscriptions == InitSeeded /\ [][NextSubscriptions]_vars

(***************************************************************************)
(* The rows that reference one another, from the seeded database: the      *)
(* masters and the administrator create and change price-list rows and     *)
(* add events, masters delete their accounts, and services are deleted.    *)
(***************************************************************************)
CascadePrincipals == {u \in DOMAIN users : users[u].kind # "Customer"}

CascadeServiceIds == 1..Len(SeedServices)

(* price-list posts name the first master and either seeded service        *)
CascadePricePosts == {[master |-> 1, service |-> s, price |-> 10] : s \in CascadeServiceIds}

CascadeEventGets == EventGets({strftime(Morning)}, {strftime(Evening)})

NextCascade ==
    \/ \E u \in CascadePrincipals : MasterDeleteView(u, u)
    \/ \E u \in CascadePrincipals, pk \in CascadeServiceIds : ServicesDeleteView(u, pk)
    \/ \E u \in CascadePrincipals, post \in CascadePricePosts : PriceListCreateView(u, post)
    \/ \E u \in CascadePrincipals, pk \in PriceIds, post \in CascadePricePosts :
            PriceListUpdateView(u, pk, post)
    \/ \E u \in CascadePrincipals, get \in CascadeEventGets : add_event(u, get)

SpecCascade == InitSeeded /\ [][NextCascade]_vars

(***************************************************************************)
(* C1.  Every Master or Customer row that a step creates (through the      *)
(* model or through the registration endpoints) is stored with the fixed   *)
(* role of its subtype, whatever role the caller supplied; a plain User    *)
(* is stored as ADMIN.                                                     *)
(***************************************************************************)
C1_RoleFixedAtCreation ==
    [][\A id \in (DOMAIN users') \ (DOMAIN users) :
          users'[id].role = (CASE users'[id].kind = "Master" -> "MASTER"
                               [] users'[id].kind = "Customer" -> "CUSTOMER"
                               [] users'[id].kind = "User" -> "ADMIN")]_vars

(* A Master was created through the model with role ADMIN supplied, and a  *)
(* row was stored for it.                                                  *)
C1_Witness ==
    /\ req.view = "model.create"
    /\ resp.status = "SAVED"
    /\ req.data.kind = "Master"
    /\ req.data.role = "ADMIN"
    /\ seq.user \in Masters(users)

(***************************************************************************)
(* C8 as stated: no step changes the role of a stored row, later saves     *)
(* included.                                                               *)
(***************************************************************************)
C8_RoleNeverChanges ==
    [][\A id \in (DOMAIN users) \cap (DOMAIN users') : users'[id].role = users[id].role]_vars

(***************************************************************************)
(* C8 amended.  No request to an endpoint changes the role of a stored     *)
(* row, and neither does a later save of an instance whose role attribute  *)
(* is the stored one; save() writes the instance's role as it is.          *)
(***************************************************************************)
C8_RoleKeptByRequests ==
    [][(req'.view = "model.save" => req'.data.role = users[req'.pk].role)
          => \A id \in (DOMAIN users) \cap (DOMAIN users') : users'[id].role = users[id].role]_vars

(* The owner's master-update went through, with a role value in the post   *)
(* that differs from the stored role.                                      *)
C8_Witness ==
    /\ req.view = "master-update"
    /\ resp = RedirectTo("master-list")
    /\ req.pk \in DOMAIN users
    /\ req.data["role"] # users[req.pk].role

(***************************************************************************)
(* C4.  An unauthenticated request to the master list, customer list,      *)
(* services list, master detail or customer detail page is never answered  *)
(* with a success response, whatever the tables hold.                      *)
(***************************************************************************)
C4_AnonymousNeverOk ==
    (/\ req.user = Anonymous
     /\ req.view \in {"master-list", "customer-list", "services-list",
                      "master-detail", "customer-detail"})
        => resp.status # "OK"

(* An anonymous request for the detail page of a master that exists. *)
C4_Witness ==
    /\ req.user = Anonymous
    /\ req.view = "master-detail"
    /\ req.pk \in Masters(users)
    /\ users[req.pk].role = "MASTER"
    /\ resp.status = "REDIRECT"

(***************************************************************************)
(* C6 as stated: an authenticated master-list (customer-list) search with  *)
(* query q selects exactly the Master (Customer) rows whose username       *)
(* contains q case-insensitively, all of them when q is empty or absent.   *)
(***************************************************************************)
C6_RawQuery == IF "username" \in DOMAIN req.data THEN req.data["username"] ELSE <<>>

C6_Matches(name, q) ==
    \E i \in 1..(Len(name) - Len(q) + 1) :
        \A j \in 1..Len(q) : Lower(name[i + j - 1]) = Lower(q[j])

C6_SearchSelectsBySubstring ==
    /\ (req.view = "master-list" /\ req.user # Anonymous)
          => resp.body = {m \in DOMAIN users :
                             users[m].kind = "Master" /\ C6_Matches(users[m].username, C6_RawQuery)}
    /\ (req.view = "customer-list" /\ req.user # Anonymous)
          => resp.body = {c \in DOMAIN users :
                             users[c].kind = "Customer" /\ C6_Matches(users[c].username, C6_RawQuery)}

(***************************************************************************)
(* C6 amended.  For a query of at most 255 characters, the search selects  *)
(* exactly the rows of the subtype whose stored role is the subtype's role *)
(* and whose username contains, case-insensitively, the query with its     *)
(* leading and trailing whitespace removed (all such rows when nothing is  *)
(* left of the query); no row of the other subtype is selected.            *)
(***************************************************************************)
C6_Trimmed(q) ==
    LET keep == {i \in 1..Len(q) : q[i] # " "}
    IN  IF keep = {} THEN <<>>
        ELSE SubSeq(q, CHOOSE i \in keep : \A j \in keep : i <= j,
                       CHOOSE i \in keep : \A j \in keep : j <= i)

C6_SearchSelectsByRoleAndTrimmedQuery ==
    /\ (req.view = "master-list" /\ req.user # Anonymous)
          => resp.body = {m \in DOMAIN users :
                             /\ users[m].kind = "Master"
                             /\ users[m].role = "MASTER"
                             /\ C6_Matches(users[m].username, C6_Trimmed(C6_RawQuery))}
    /\ (req.view = "customer-list" /\ req.user # Anonymous)
          => resp.body = {c \in DOMAIN users :
                             /\ users[c].kind = "Customer"
                             /\ users[c].role = "CUSTOMER"
                             /\ C6_Matches(users[c].username, C6_Trimmed(C6_RawQuery))}

(* A search in another letter case that selects one master and leaves out  *)
(* another master whose name does not contain the query.                   *)
C6_Witness ==
    /\ req.view = "master-list"
    /\ req.user # Anonymous
    /\ C6_RawQuery = <<"a", "B">>
    /\ resp.status = "OK"
    /\ resp.body # {}
    /\ \E m \in Masters(users) : users[m].role = "MASTER" /\ m \notin resp.body

(***************************************************************************)
(* C2.  On the update and delete pages of Master, Customer and PriceList,  *)
(* a logged-in user who is not the owner of an existing target is answered *)
(* with the forbidden page and no table changes; the owner is not refused, *)
(* the owner's delete removes the row and the owner's update with a valid  *)
(* form writes the submitted values.                                       *)
(***************************************************************************)
C2_IsOwner(r) ==
    IF r.view \in {"price-list-update", "price-list-delete"}
    THEN r.user \in DOMAIN users /\ users[r.user].kind = "Master"
            /\ pricelist[r.pk].master = r.user
    ELSE r.user = r.pk

C2_TargetExists(r) ==
    CASE r.view \in {"master-update", "master-delete"} ->
            r.pk \in DOMAIN users /\ users[r.pk].kind = "Master"
      [] r.view \in {"customer-update", "customer-delete"} ->
            r.pk \in DOMAIN users /\ users[r.pk].kind = "Customer"
      [] r.view \in {"price-list-update", "price-list-delete"} -> r.pk \in DOMAIN pricelist
      [] OTHER -> FALSE

C2_Performed(r) ==
    CASE r.view \in {"master-delete", "customer-delete"} -> r.pk \notin DOMAIN users'
      [] r.view = "price-list-delete" -> r.pk \notin DOMAIN pricelist'
      [] r.view \in {"master-update", "customer-update"} ->
            \/ resp'.status = "OK" /\ UNCHANGED users
            \/ /\ resp'.status = "REDIRECT"
               /\ users'[r.pk].username = r.data["username"]
      [] r.view = "price-list-update" ->
            \/ resp'.status = "OK" /\ UNCHANGED pricelist
            \/ /\ resp'.status = "REDIRECT"
               /\ pricelist'[r.pk] = [master |-> r.data.master, service |-> r.data.service,
                                      price |-> r.data.price]

C2_OwnerOnly ==
    [][(req'.user # Anonymous /\ C2_TargetExists(req'))
          => IF C2_IsOwner(req')
             THEN resp'.status \in {"OK", "REDIRECT"} /\ C2_Performed(req')
             ELSE /\ resp'.status = "FORBIDDEN"
                  /\ UNCHANGED <<users, services, pricelist, events>>]_vars

(* One master has just been refused the update of a price-list row of the  *)
(* other master, which is still there.                                     *)
C2_Witness ==
    /\ req.view = "price-list-update"
    /\ resp.status = "FORBIDDEN"
    /\ req.user \in Masters(users)
    /\ req.pk \in DOMAIN pricelist
    /\ pricelist[req.pk].master # req.user

(***************************************************************************)
(* C3 as stated: after the owner's master-update with the set S of         *)
(* selected services and a price per service, the PriceList rows of that   *)
(* master are exactly one row per service of S, at the submitted price.    *)
(***************************************************************************)
C3_PriceListMatchesSelection ==
    [][(req'.view = "master-update" /\ resp' = RedirectTo("master-list"))
          => LET S == req'.data["services"]
                 mine == {r \in DOMAIN pricelist' : pricelist'[r].master = req'.pk}
             IN  /\ \A r \in mine : pricelist'[r].service \in S
                 /\ \A sv \in S :
                       /\ Cardinality({r \in mine : pricelist'[r].service = sv}) = 1
                       /\ \A r \in mine : pricelist'[r].service = sv
                             => pricelist'[r].price = req'.data[PriceKey(sv)]]_vars

(***************************************************************************)
(* C5 as stated: a request that is not logged in, to a page that carries   *)
(* the login requirement, is answered with the redirect to the login page  *)
(* and changes no stored row.                                              *)
(***************************************************************************)
C5_LoginProtectedViews ==
    {"index", "master-list", "customer-list", "services-list", "master-detail",
     "customer-detail", "master-update", "master-delete", "customer-update",
     "customer-delete", "services-create", "services-update", "services-delete",
     "price-list-create", "price-list-update", "price-list-delete"}

C5_AnonymousRedirectedToLogin ==
    [][(req'.user = Anonymous /\ req'.view \in C5_LoginProtectedViews)
          => /\ resp' = RedirectToLogin
             /\ UNCHANGED <<users, services, pricelist, events>>]_vars

(***************************************************************************)
(* C7.  /all_events/ answers with a JSON array that holds exactly one      *)
(* object per stored Events row, of every master, with the row's title and *)
(* id and with start and end rendered as YYYY-MM-DD HH:MM:SS; the request  *)
(* changes no stored row.                                                  *)
(***************************************************************************)
C7_Decimal(s, from, to) ==
    LET val(c) == CASE c = "0" -> 0 [] c = "1" -> 1 [] c = "2" -> 2 [] c = "3" -> 3
                    [] c = "4" -> 4 [] c = "5" -> 5 [] c = "6" -> 6 [] c = "7" -> 7
                    [] c = "8" -> 8 [] c = "9" -> 9 [] OTHER -> -1000000
        f[i \in from..to] == IF i = from THEN val(s[i]) ELSE 10 * f[i - 1] + val(s[i])
    IN  f[to]

C7_Renders(s, dt) ==
    /\ Len(s) = 19
    /\ s[5] = "-" /\ s[8] = "-" /\ s[11] = " " /\ s[14] = ":" /\ s[17] = ":"
    /\ C7_Decimal(s, 1, 4) = dt.year
    /\ C7_Decimal(s, 6, 7) = dt.month
    /\ C7_Decimal(s, 9, 10) = dt.day
    /\ C7_Decimal(s, 12, 13) = dt.hour
    /\ C7_Decimal(s, 15, 16) = dt.minute
    /\ C7_Decimal(s, 18, 19) = dt.second

C7_AllEventsListsEveryRow ==
    [][req'.view = "all_events"
          => /\ UNCHANGED <<users, services, pricelist, events>>
             /\ resp'.status = "OK"
             /\ Len(resp'.body) = Cardinality(DOMAIN events)
             /\ \A id \in DOMAIN events :
                   \E i \in 1..Len(resp'.body) :
                      /\ resp'.body[i].id = id
                      /\ resp'.body[i].title = events[id].title
                      /\ C7_Renders(resp'.body[i].start, events[id].start_date)
                      /\ C7_Renders(resp'.body[i].end, events[id].end_date)]_vars

(* Two events of two different masters are stored and the answer lists two *)
(* objects.                                                                *)
C7_Witness ==
    /\ req.view = "all_events"
    /\ Len(resp.body) = 2
    /\ \E e1, e2 \in DOMAIN events : events[e1].master # events[e2].master

(***************************************************************************)
(* C9 as stated: a logged-in detail, update or delete request for an id    *)
(* that has no row (Master, Customer, Services, PriceList, and the event   *)
(* update and remove endpoints) is answered with not-found and changes no  *)
(* stored row.                                                             *)
(***************************************************************************)
C9_TargetMissing(r) ==
    CASE r.view \in {"master-detail", "master-update", "master-delete"} ->
            ~(r.pk \in DOMAIN users /\ users[r.pk].kind = "Master")
      [] r.view \in {"customer-detail", "customer-update", "customer-delete"} ->
            ~(r.pk \in DOMAIN users /\ users[r.pk].kind = "Customer")
      [] r.view \in {"services-update", "services-delete"} -> r.pk \notin DOMAIN services
      [] r.view \in {"price-list-update", "price-list-delete"} -> r.pk \notin DOMAIN pricelist
      [] r.view \in {"update", "remove"} -> r.pk \notin DOMAIN events
      [] OTHER -> FALSE

C9_MissingTargetIsNotFound ==
    [][(req'.user # Anonymous /\ C9_TargetMissing(req'))
          => /\ resp'.status = "NOT_FOUND"
             /\ UNCHANGED <<users, services, pricelist, events>>]_vars

(***************************************************************************)
(* C10.  No two Services rows ever have the same name, and a create or     *)
(* update that would give a row the name of another row is refused and     *)
(* leaves the Services table as it was.                                    *)
(***************************************************************************)
C10_UniqueNames ==
    /\ [](\A s1, s2 \in DOMAIN services : services[s1].name = services[s2].name => s1 = s2)
    /\ [][(/\ req'.view \in {"services.create", "services-create", "services-update"}
           /\ \E other \in (DOMAIN services) \ {req'.pk} :
                 services[other].name = req'.data.name)
             => /\ services' = services
                /\ resp'.status \in {"INTEGRITY_ERROR", "OK", "FORBIDDEN", "NOT_FOUND",
                                     "SERVER_ERROR"}]_vars

(* A master's create of a second service under the name of the first one   *)
(* was refused: the form is shown again.                                   *)
C10_Witness ==
    /\ req.view = "services-create"
    /\ resp.status = "OK"
    /\ req.user \in Masters(users)
    /\ \E sv \in DOMAIN services : services[sv].name = req.data.name

(***************************************************************************)
(* C11.  The update and remove endpoints change or delete the target event *)
(* only when the requesting user has role MASTER, has a Master row and is  *)
(* the master of the event; they touch no other event.  When a different   *)
(* master asks, the events stay as they are and the empty JSON object is   *)
(* returned.  An update never changes the master of an event.              *)
(***************************************************************************)
C11_IsMaster(u) == u \in DOMAIN users /\ users[u].role = "MASTER" /\ has_master(u)

C11_OnlyOwnerChangesEvent ==
    [][req'.view \in {"update", "remove"}
          => /\ events' # events
                  => /\ C11_IsMaster(req'.user)
                     /\ req'.pk \in DOMAIN events
                     /\ events[req'.pk].master = req'.user
             /\ (/\ C11_IsMaster(req'.user)
                 /\ req'.pk \in DOMAIN events
                 /\ events[req'.pk].master # req'.user)
                  => events' = events /\ resp' = Ok(NoData)
             /\ \A e \in (DOMAIN events) \ {req'.pk} :
                    e \in DOMAIN events' /\ events'[e] = events[e]
             /\ (req'.view = "update" /\ req'.pk \in DOMAIN events)
                  => /\ req'.pk \in DOMAIN events'
                     /\ events'[req'.pk].master = events[req'.pk].master]_vars

(* A master asked to update an event of the other master, with parameters  *)
(* that differ from the stored ones, and got the empty object.             *)
C11_Witness ==
    /\ req.view = "update"
    /\ resp = Ok(NoData)
    /\ C11_IsMaster(req.user)
    /\ req.pk \in DOMAIN events
    /\ events[req.pk].master # req.user
    /\ strptime(req.data.start) # events[req.pk].start_date

(***************************************************************************)
(* C12.  A request to add_event, update or remove by a logged-in user      *)
(* whose role is not MASTER (a customer, an administrator) is answered     *)
(* with the forbidden response, and the Events table is left as it was.    *)
(***************************************************************************)
C12_NonMasterForbidden ==
    [][(/\ req'.view \in {"add_event", "update", "remove"}
        /\ req'.user \in DOMAIN users
        /\ users[req'.user].role # "MASTER")
          => resp' = Forbidden /\ events' = events]_vars

(* The customer asked to remove a stored event and was refused. *)
C12_Witness ==
    /\ req.view = "remove"
    /\ req.user \in DOMAIN users
    /\ users[req.user].role = "CUSTOMER"
    /\ req.pk \in DOMAIN events
    /\ resp = Forbidden

(***************************************************************************)
(* C13 as stated: a request to all_events, add_event, update or remove by  *)
(* a visitor who is not logged in never gets a success response, never     *)
(* gets stored events in the response and leaves the Events table as it    *)
(* was.                                                                    *)
(***************************************************************************)
C13_AnonymousEventsRefused ==
    [][(/\ req'.view \in {"all_events", "add_event", "update", "remove"}
        /\ req'.user = Anonymous)
          => /\ resp'.status # "OK"
             /\ req'.view = "all_events" => Len(resp'.body) = 0
             /\ events' = events]_vars

(***************************************************************************)
(* C14.  An add_event request by a master, with a title and with start and *)
(* end written as YYYY-MM-DD HH:MM:SS, adds exactly one Events row, owned  *)
(* by that master and holding the submitted title and times, and changes   *)
(* no other row; the order of start and end and the events the master      *)
(* already has play no part.                                               *)
(***************************************************************************)
C14_WellFormed(s) ==
    /\ Len(s) = 19
    /\ s[5] = "-" /\ s[8] = "-" /\ s[11] = " " /\ s[14] = ":" /\ s[17] = ":"
    /\ \A i \in (1..19) \ {5, 8, 11, 14, 17} : s[i] \in Digits
    /\ C7_Decimal(s, 6, 7) \in 1..12
    /\ C7_Decimal(s, 9, 10) \in 1..DaysIn(C7_Decimal(s, 6, 7))
    /\ C7_Decimal(s, 12, 13) \in 0..23
    /\ C7_Decimal(s, 15, 16) \in 0..59
    /\ C7_Decimal(s, 18, 19) \in 0..59

C14_AddEventCreatesOneRow ==
    [][(/\ req'.view = "add_event"
        /\ C11_IsMaster(req'.user)
        /\ DOMAIN req'.data = {"start", "end", "title"}
        /\ C14_WellFormed(req'.data.start)
        /\ C14_WellFormed(req'.data.end))
          => /\ resp' = Ok(NoData)
             /\ \E new \in (DOMAIN events') \ (DOMAIN events) :
                   /\ DOMAIN events' = (DOMAIN events) \cup {new}
                   /\ events'[new].title = req'.data.title
                   /\ events'[new].master = req'.user
                   /\ C7_Renders(req'.data.start, events'[new].start_date)
                   /\ C7_Renders(req'.data.end, events'[new].end_date)
             /\ \A e \in DOMAIN events : events'[e] = events[e]]_vars

(* A master added an event that ends before it starts, over the interval   *)
(* of an event the same master already had.                                *)
C14_Witness ==
    /\ req.view = "add_event"
    /\ resp = Ok(NoData)
    /\ \E e1, e2 \in DOMAIN events :
          /\ e1 # e2
          /\ events[e1].master = req.user /\ events[e2].master = req.user
          /\ events[e1].start_date = Evening /\ events[e1].end_date = Morning
          /\ events[e2].start_date = Evening /\ events[e2].end_date = Morning

(***************************************************************************)
(* C15 as stated: the services create, update and delete pages let the     *)
(* request through exactly when the requesting user has role MASTER and a  *)
(* Master row; every other logged-in user gets the forbidden response and  *)
(* the Services table stays as it was.                                     *)
(***************************************************************************)
C15_ServicesMasterOnly ==
    [][(/\ req'.view \in {"services-create", "services-update", "services-delete"}
        /\ req'.user \in DOMAIN users)
          => IF C11_IsMaster(req'.user)
             THEN resp'.status # "FORBIDDEN"
             ELSE resp' = Forbidden /\ services' = services]_vars

(***************************************************************************)
(* C16.  Every PriceList row that a price-list create request adds has the *)
(* requesting user as its master, whatever master the submitted form       *)
(* names; a logged-in user whose role is not MASTER gets the forbidden     *)
(* response and no row is added.                                           *)
(***************************************************************************)
C16_CreatedRowBelongsToRequester ==
    [][req'.view = "price-list-create"
          => /\ \A p \in (DOMAIN pricelist') \ (DOMAIN pricelist) :
                    /\ C11_IsMaster(req'.user)
                    /\ pricelist'[p].master = req'.user
             /\ (req'.user \in DOMAIN users /\ users[req'.user].role # "MASTER")
                  => resp' = Forbidden /\ pricelist' = pricelist]_vars

(* A master's create request named the other master in the form, and the   *)
(* row it added belongs to the requester.                                   *)
C16_Witness ==
    /\ req.view = "price-list-create"
    /\ resp.status = "REDIRECT"
    /\ req.data.master # req.user
    /\ \E p \in DOMAIN pricelist : pricelist[p].master = req.user
    /\ ~\E p \in DOMAIN pricelist : pricelist[p].master = req.data.master

(***************************************************************************)
(* C17.  The PriceList table has no uniqueness rule on (master, service):  *)
(* a valid price-list create request by a master for a service the master  *)
(* already has a row for is accepted and adds one more row for the pair,   *)
(* so a state with two rows for one (master, service) pair is reachable.   *)
(***************************************************************************)
C17_RowsOfPair(tbl, m, s) == {p \in DOMAIN tbl : tbl[p].master = m /\ tbl[p].service = s}

C17_DuplicateRowAccepted ==
    [][(/\ req'.view = "price-list-create"
        /\ C11_IsMaster(req'.user)
        /\ req'.data.master \in Masters(users)
        /\ req'.data.service \in DOMAIN services
        /\ req'.data.price # NoPrice
        /\ C17_RowsOfPair(pricelist, req'.user, req'.data.service) # {})
          => /\ resp' = RedirectTo("master-list")
             /\ Cardinality(C17_RowsOfPair(pricelist', req'.user, req'.data.service))
                  = Cardinality(C17_RowsOfPair(pricelist, req'.user, req'.data.service)) + 1]_vars

(* Two rows of one master for one service, the second just created. *)
C17_Witness ==
    /\ req.view = "price-list-create"
    /\ resp = RedirectTo("master-list")
    /\ Cardinality(C17_RowsOfPair(pricelist, req.user, req.data.service)) >= 2

(***************************************************************************)
(* C20 as stated: whenever a price-list create, update or delete request   *)
(* adds a PriceList row or writes one, the master of the row after the     *)
(* request is the requesting user; no request by another user makes a row  *)
(* belong to master M.                                                     *)
(***************************************************************************)
C20_RowsWrittenByTheirMaster ==
    [][req'.view \in {"price-list-create", "price-list-update", "price-list-delete"}
          => \A p \in DOMAIN pricelist' :
                (p \notin DOMAIN pricelist \/ pricelist'[p] # pricelist[p])
                   => pricelist'[p].master = req'.user]_vars

(***************************************************************************)
(* C18 as stated: for every logged-in user and every stored master,        *)
(* subscribe_to_master leaves the master among the user's subscriptions    *)
(* (once, however often it is repeated) and redirects to the master's      *)
(* page; unsubscribe_from_master takes a subscribed master out again, and  *)
(* for a master who is not subscribed it leaves the subscriptions as they  *)
(* are and reports an error message, redirecting to the master's page.     *)
(***************************************************************************)
C18_Subscribed(tbl, u) == {mc[1] : mc \in {x \in tbl : x[2] = u}}

C18_SubscribeAndUnsubscribe ==
    [][(/\ req'.view \in {"subscribe_to_master", "unsubscribe_from_master"}
        /\ req'.user \in DOMAIN users
        /\ req'.pk \in Masters(users))
          => /\ resp'.status = "REDIRECT"
             /\ resp'.location = MasterDetailUrl(req'.pk)
             /\ IF req'.view = "subscribe_to_master"
                THEN C18_Subscribed(master_customers', req'.user)
                        = C18_Subscribed(master_customers, req'.user) \cup {req'.pk}
                ELSE /\ C18_Subscribed(master_customers', req'.user)
                           = C18_Subscribed(master_customers, req'.user) \ {req'.pk}
                     /\ req'.pk \notin C18_Subscribed(master_customers, req'.user)
                           => \E m \in resp'.body : m[1] = "error"]_vars

(***************************************************************************)
(* C19.  In every reachable state each Events row references a stored      *)
(* Master and each PriceList row references a stored Master and a stored   *)
(* Services row; a master's delete leaves no event and no price-list row   *)
(* of that master, and a service's delete leaves no price-list row of that *)
(* service.                                                                *)
(***************************************************************************)
C19_ReferencesExist ==
    /\ [](/\ \A e \in DOMAIN events : events[e].master \in Masters(users)
          /\ \A p \in DOMAIN pricelist :
                /\ pricelist[p].master \in Masters(users)
                /\ pricelist[p].service \in DOMAIN services)
    /\ [][(/\ req'.view = "master-delete" /\ req'.pk \notin DOMAIN users'
              => /\ RowsOfMaster(events', req'.pk) = {}
                 /\ RowsOfMaster(pricelist', req'.pk) = {})
          /\ (req'.view = "services-delete" /\ req'.pk \notin DOMAIN services'
              => RowsOfService(pricelist', req'.pk) = {})]_vars

(* A master who had an event and a price-list row deleted the account:     *)
(* rows were created, none is left, and the other master and every service *)
(* are still stored.                                                       *)
C19_Witness ==
    /\ req.view = "master-delete"
    /\ resp = RedirectTo("master-list")
    /\ seq.event >= 1 /\ seq.price >= 1
    /\ events = Empty /\ pricelist = Empty
    /\ services = SeedServices
    /\ req.pk \notin DOMAIN users
    /\ Masters(users) # {}
====
